---- MODULE Spec2Model ----
(***************************************************************************)
(* State machine of the TDS calculator wizard (App component) and of its   *)
(* HTTP client (services/api.js).  Each React state hook is a variable,    *)
(* each event handler is an action, and each network call is split into    *)
(* the step that issues it and the step that settles its promise.          *)
(***************************************************************************)
EXTENDS Integers, Sequences, FiniteSets, TLC

VARIABLES step, entity, mode, transactions, currentTransactionIndex,
          totalTransactions, sections, results, loading, error,
          sectionsReq, pending, calcSucceeded

vars == <<step, entity, mode, transactions, currentTransactionIndex,
          totalTransactions, sections, results, loading, error,
          sectionsReq, pending, calcSucceeded>>

\* ------------------------------------------------------------------ bounds
\* Under SpecEntry the user asks for at most this many transactions ...
MaxCount == 3
\* ... and fills in only lists of at most this many transactions.
MaxEditLen == 2
\* Under SpecFilename entity names have at most this many characters.
MaxNameLen == 3
\* At most this many calculate/export requests are in flight at once.
MaxPending == 2

\* --------------------------------------------------------------- constants
\* JavaScript null (useState(null)).
Null == [null |-> TRUE]

\* Upper limit of the transaction count (Math.min(20, ...), "< 20").
MaxTransactions == 20

\* new Date().toISOString().split('T')[0]
Today == "2026-01-15"

Min(a, b) == IF a < b THEN a ELSE b

Max(a, b) == IF a > b THEN a ELSE b

getDefaultTransaction ==
  [section_code |-> "",
   amount |-> 0,
   category |-> "Company / Firm / Co-operative Society / Local Authority",
   pan_available |-> TRUE,
   deduction_date |-> Today,
   payment_date |-> Today,
   threshold_type |-> "",
   annual_threshold_exceeded |-> FALSE,
   selected_slab |-> ""]

\* The list as it would be built by Array(count + 1).
DefaultTransactions_OneMore(count) == [i \in 1..(count + 1) |-> getDefaultTransaction]

\* Array(count).fill(null).map(() => getDefaultTransaction())
DefaultTransactions(count) == [i \in 1..count |-> getDefaultTransaction]

\* ------------------------------------------------------------------ inputs
\* Values the transaction form can hand to onChange: a complete one, one
\* without an amount and one without each date (the default transaction is
\* the one without a section).
TxnInputs ==
  { [getDefaultTransaction EXCEPT !.section_code = "194C", !.amount = 5000],
    [getDefaultTransaction EXCEPT !.section_code = "194C", !.amount = 0],
    [getDefaultTransaction EXCEPT !.section_code = "194C", !.amount = 5000,
                                  !.deduction_date = ""],
    [getDefaultTransaction EXCEPT !.section_code = "194C", !.amount = 5000,
                                  !.payment_date = ""] }

\* Values the entity form can hand to onSubmit.
EntityInputs ==
  { [entity_name |-> <<"A", "c", "m", "e">>, pan_number |-> "AAAAA0000A"],
    [entity_name |-> <<"B", " ", "&", " ", "C", "o">>, pan_number |-> "BBBBB1111B"] }

\* Strings the user can type into the count input (e.target.value).
CountInputs ==
  { <<>>, <<"0">>, <<"-", "3">>, <<"2", "0">>, <<"2", "5">>, <<"7", "x">> }

\* Data returned by GET /sections/.
SectionsData == <<"194C", "194J">>

\* ------------------------------------------------------------- validation
\* The three checks shared by validateCurrentTransaction and
\* validateAllTransactions; "" when the transaction passes.
TxnFault(txn) ==
  IF txn.section_code = "" THEN "Please select a TDS section"
  ELSE IF txn.amount <= 0 THEN "Please enter a valid amount"
  ELSE IF txn.deduction_date = "" \/ txn.payment_date = "" THEN "Please enter valid dates"
  ELSE ""

\* A banner message; txn is the ${i + 1} prefix of validateAllTransactions,
\* 0 when the message has no prefix.
Message(i, text) == [txn |-> i, msg |-> text]

\* Index (1-based) of the first transaction failing a check, 0 when none.
FirstInvalid(txns) ==
  IF \E i \in 1..Len(txns) : TxnFault(txns[i]) # ""
  THEN CHOOSE i \in 1..Len(txns) :
         /\ TxnFault(txns[i]) # ""
         /\ \A j \in 1..(i - 1) : TxnFault(txns[j]) = ""
  ELSE 0

\* validateCurrentTransaction as it would be if it ran the checks over the
\* whole list.
validateCurrentTransaction_ChecksAll == FirstInvalid(transactions) = 0

\* validateCurrentTransaction: its return value ...
validateCurrentTransaction ==
  TxnFault(transactions[currentTransactionIndex + 1]) = ""

\* ... and the message it passes to setError when it returns false.
validateCurrentTransactionError ==
  Message(0, TxnFault(transactions[currentTransactionIndex + 1]))

\* validateAllTransactions as it would be if it looked at the active
\* transaction only.
validateAllTransactions_CurrentOnly ==
  TxnFault(transactions[currentTransactionIndex + 1]) = ""

\* validateAllTransactions: its return value ...
validateAllTransactions == FirstInvalid(transactions) = 0

\* ... and the message it passes to setError when it returns false.
validateAllTransactionsError ==
  Message(FirstInvalid(transactions), TxnFault(transactions[FirstInvalid(transactions)]))

\* ------------------------------------------------------------ count input
IsDigit(c) == c \in {"0", "1", "2", "3", "4", "5", "6", "7", "8", "9"}

DigitVal(c) ==
  CASE c = "0" -> 0 [] c = "1" -> 1 [] c = "2" -> 2 [] c = "3" -> 3
    [] c = "4" -> 4 [] c = "5" -> 5 [] c = "6" -> 6 [] c = "7" -> 7
    [] c = "8" -> 8 [] c = "9" -> 9

RECURSIVE DigitsValue(_, _)
\* Value of the leading run of digits of s, continuing from acc.
DigitsValue(s, acc) ==
  IF s = <<>> \/ ~IsDigit(Head(s)) THEN acc
  ELSE DigitsValue(Tail(s), acc * 10 + DigitVal(Head(s)))

\* parseInt(e.target.value): optional sign, then the leading digits; NaN
\* when there is no leading digit.
parseInt(s) ==
  LET neg  == s # <<>> /\ Head(s) = "-"
      body == IF s # <<>> /\ Head(s) \in {"-", "+"} THEN Tail(s) ELSE s
  IN IF body = <<>> \/ ~IsDigit(Head(body))
     THEN [nan |-> TRUE, val |-> 0]
     ELSE [nan |-> FALSE,
           val |-> IF neg THEN 0 - DigitsValue(body, 0) ELSE DigitsValue(body, 0)]

\* The clamp as it would be without Math.min(20, ...).
ClampCount_NoUpper(s) ==
  LET p == parseInt(s)
      v == IF p.nan \/ p.val = 0 THEN 1 ELSE p.val
  IN Max(1, v)

\* Math.max(1, Math.min(20, parseInt(e.target.value) || 1))
ClampCount(s) ==
  LET p == parseInt(s)
      v == IF p.nan \/ p.val = 0 THEN 1 ELSE p.val
  IN Max(1, Min(MaxTransactions, v))

\* ------------------------------------------------------------------- state
Init ==
  /\ step = "1"
  /\ entity = Null
  /\ mode = "single"
  /\ transactions = <<getDefaultTransaction>>
  /\ currentTransactionIndex = 0
  /\ totalTransactions = 1
  /\ sections = <<>>
  /\ results = Null
  /\ loading = FALSE
  /\ error = Null
  /\ sectionsReq = "pending"
  /\ pending = {}
  /\ calcSucceeded = FALSE

\* --------------------------------------------------------- export filename
\* [a-zA-Z0-9]
IsAlnum(c) ==
  c \in {"a", "b", "c", "d", "e", "f", "g", "h", "i", "j", "k", "l", "m",
         "n", "o", "p", "q", "r", "s", "t", "u", "v", "w", "x", "y", "z",
         "A", "B", "C", "D", "E", "F", "G", "H", "I", "J", "K", "L", "M",
         "N", "O", "P", "Q", "R", "S", "T", "U", "V", "W", "X", "Y", "Z",
         "0", "1", "2", "3", "4", "5", "6", "7", "8", "9"}

\* \s, over the characters of the model
IsWhitespace(c) == c \in {" ", "\t", "\n"}

\* The characters /[^a-zA-Z0-9\s]/g does not match.
KeptByStrip(c) == IsAlnum(c) \/ IsWhitespace(c)

\* .replace(/[^a-zA-Z0-9\s]/g, '')
StripNonAlnum(s) == SelectSeq(s, KeptByStrip)

RECURSIVE DropWhitespace(_)
\* s without its leading run of whitespace.
DropWhitespace(s) ==
  IF s # <<>> /\ IsWhitespace(Head(s)) THEN DropWhitespace(Tail(s)) ELSE s

RECURSIVE CollapseWhitespace_Each(_)
\* The replacement as it would be with /\s/g: one underscore per whitespace
\* character.
CollapseWhitespace_Each(s) ==
  IF s = <<>> THEN <<>>
  ELSE IF IsWhitespace(Head(s)) THEN <<"_">> \o CollapseWhitespace_Each(Tail(s))
  ELSE <<Head(s)>> \o CollapseWhitespace_Each(Tail(s))

RECURSIVE CollapseWhitespace(_)
\* .replace(/\s+/g, '_')
CollapseWhitespace(s) ==
  IF s = <<>> THEN <<>>
  ELSE IF IsWhitespace(Head(s)) THEN <<"_">> \o CollapseWhitespace(DropWhitespace(s))
  ELSE <<Head(s)>> \o CollapseWhitespace(Tail(s))

\* const sanitizedName
SanitizedName(name) == CollapseWhitespace(StripNonAlnum(name))

\* The characters of Today.
TodayChars == <<"2", "0", "2", "6", "-", "0", "1", "-", "1", "5">>

NotHyphen(c) == c # "-"

\* const dateStr: new Date().toISOString().split('T')[0].replace(/-/g, '')
DateStr == SelectSeq(TodayChars, NotHyphen)

\* const filename: `${sanitizedName}_Report_${dateStr}.xlsx`
Filename(name) ==
  SanitizedName(name) \o <<"_", "R", "e", "p", "o", "r", "t", "_">> \o DateStr
    \o <<".", "x", "l", "s", "x">>

\* ---------------------------------------------------------------- requests
\* An id not used by a request in flight.
FreeId == CHOOSE i \in 1..MaxPending : \A r \in pending : r.id # i

\* The body of POST /calculate/ issued by calculateTDS(entity, transactions).
CalculateRequest(e, txns) ==
  [id |-> FreeId, kind |-> "calculate", entity |-> e, transactions |-> txns,
   results |-> Null]

\* The body of POST /generate-excel/ issued by downloadExcel(entity, results),
\* and the name downloadExcel saves the response under once it has arrived.
ExportRequest(e, res) ==
  [id |-> FreeId, kind |-> "export", entity |-> e, transactions |-> <<>>,
   results |-> res, filename |-> Filename(e.entity_name)]

\* response.results of the backend for a calculate request: one report per
\* transaction of the request, for the entity of the request.
ResponseResults(req) == [entity |-> req.entity, transactions |-> req.transactions]

\* useEffect / fetchSections: GET /sections/ succeeds.
fetchSectionsResolve ==
  /\ sectionsReq = "pending"
  /\ sections' = SectionsData
  /\ sectionsReq' = "done"
  /\ UNCHANGED <<step, entity, mode, transactions, currentTransactionIndex,
                 totalTransactions, results, loading, error, pending, calcSucceeded>>

\* useEffect / fetchSections: GET /sections/ fails.
fetchSectionsReject ==
  /\ sectionsReq = "pending"
  /\ error' = Message(0, "Failed to load TDS sections. Make sure the backend server is running.")
  /\ sectionsReq' = "done"
  /\ UNCHANGED <<step, entity, mode, transactions, currentTransactionIndex,
                 totalTransactions, sections, results, loading, pending, calcSucceeded>>

\* The banner's close button: setError(null).
DismissError ==
  /\ error # Null
  /\ error' = Null
  /\ UNCHANGED <<step, entity, mode, transactions, currentTransactionIndex,
                 totalTransactions, sections, results, loading, sectionsReq,
                 pending, calcSucceeded>>

\* ------------------------------------------------------------------ step 1
handleEntitySubmit(entityData) ==
  /\ step = "1"
  /\ entity' = entityData
  /\ step' = "2"
  /\ UNCHANGED <<mode, transactions, currentTransactionIndex, totalTransactions,
                 sections, results, loading, error, sectionsReq, pending,
                 calcSucceeded>>

\* ------------------------------------------------------------------ step 2
\* ReportModeSelector onModeChange={setMode}
onModeChange(m) ==
  /\ step = "2"
  /\ mode' = m
  /\ UNCHANGED <<step, entity, transactions, currentTransactionIndex,
                 totalTransactions, sections, results, loading, error,
                 sectionsReq, pending, calcSucceeded>>

\* The step-2 Back button as it would be if it also dropped the entity.
StepTwoBack_ClearsEntity ==
  /\ step = "2"
  /\ step' = "1"
  /\ entity' = Null
  /\ UNCHANGED <<mode, transactions, currentTransactionIndex,
                 totalTransactions, sections, results, loading, error,
                 sectionsReq, pending, calcSucceeded>>

\* Step-2 Back button: setStep(1)
StepTwoBack ==
  /\ step = "2"
  /\ step' = "1"
  /\ UNCHANGED <<entity, mode, transactions, currentTransactionIndex,
                 totalTransactions, sections, results, loading, error,
                 sectionsReq, pending, calcSucceeded>>

\* handleModeSelect as it would be if its single branch kept the list.
handleModeSelect_KeepsList ==
  /\ step = "2"
  /\ IF mode = "multiple"
     THEN /\ step' = "2.5"
          /\ UNCHANGED <<transactions, currentTransactionIndex, totalTransactions>>
     ELSE /\ currentTransactionIndex' = 0
          /\ step' = "3"
          /\ UNCHANGED <<transactions, totalTransactions>>
  /\ UNCHANGED <<entity, mode, sections, results, loading, error, sectionsReq,
                 pending, calcSucceeded>>

handleModeSelect ==
  /\ step = "2"
  /\ IF mode = "multiple"
     THEN /\ step' = "2.5"
          /\ UNCHANGED <<transactions, currentTransactionIndex, totalTransactions>>
     ELSE /\ transactions' = <<getDefaultTransaction>>
          /\ currentTransactionIndex' = 0
          /\ totalTransactions' = 1
          /\ step' = "3"
  /\ UNCHANGED <<entity, mode, sections, results, loading, error, sectionsReq,
                 pending, calcSucceeded>>

\* ---------------------------------------------------------------- step 2.5
\* The "-" button: disabled={totalTransactions <= 1}
CountDecrement ==
  /\ step = "2.5"
  /\ totalTransactions > 1
  /\ totalTransactions' = totalTransactions - 1
  /\ UNCHANGED <<step, entity, mode, transactions, currentTransactionIndex,
                 sections, results, loading, error, sectionsReq, pending,
                 calcSucceeded>>

\* The "+" button: disabled={totalTransactions >= 20}
CountIncrement ==
  /\ step = "2.5"
  /\ totalTransactions < MaxTransactions
  /\ totalTransactions' = totalTransactions + 1
  /\ UNCHANGED <<step, entity, mode, transactions, currentTransactionIndex,
                 sections, results, loading, error, sectionsReq, pending,
                 calcSucceeded>>

\* The number input's onChange.
CountInputChange(s) ==
  /\ step = "2.5"
  /\ totalTransactions' = ClampCount(s)
  /\ UNCHANGED <<step, entity, mode, transactions, currentTransactionIndex,
                 sections, results, loading, error, sectionsReq, pending,
                 calcSucceeded>>

\* Step-2.5 Back button: setStep(2)
StepCountBack ==
  /\ step = "2.5"
  /\ step' = "2"
  /\ UNCHANGED <<entity, mode, transactions, currentTransactionIndex,
                 totalTransactions, sections, results, loading, error,
                 sectionsReq, pending, calcSucceeded>>

\* handleSetTransactionCount as it would be if it kept the transactions
\* already entered and only filled the list up to the count.
handleSetTransactionCount_KeepsEntered ==
  /\ step = "2.5"
  /\ transactions' =
       [i \in 1..totalTransactions |->
          IF i <= Len(transactions) THEN transactions[i] ELSE getDefaultTransaction]
  /\ totalTransactions' = totalTransactions
  /\ currentTransactionIndex' = 0
  /\ step' = "3"
  /\ UNCHANGED <<entity, mode, sections, results, loading, error, sectionsReq,
                 pending, calcSucceeded>>

\* "Continue to Transactions": handleSetTransactionCount(totalTransactions)
handleSetTransactionCount ==
  /\ step = "2.5"
  /\ transactions' = DefaultTransactions(totalTransactions)
  /\ totalTransactions' = totalTransactions
  /\ currentTransactionIndex' = 0
  /\ step' = "3"
  /\ UNCHANGED <<entity, mode, sections, results, loading, error, sectionsReq,
                 pending, calcSucceeded>>

\* ------------------------------------------------------------------ step 3
\* handleTransactionChange as it would be with updated[0] = newTransaction.
handleTransactionChange_FirstSlot(newTransaction) ==
  /\ step = "3"
  /\ currentTransactionIndex < Len(transactions)
  /\ transactions' = [transactions EXCEPT ![1] = newTransaction]
  /\ UNCHANGED <<step, entity, mode, currentTransactionIndex, totalTransactions,
                 sections, results, loading, error, sectionsReq, pending,
                 calcSucceeded>>

\* TransactionForm onChange={handleTransactionChange}; the form is rendered
\* for transactions[currentTransactionIndex], which has to exist.
handleTransactionChange(newTransaction) ==
  /\ step = "3"
  /\ currentTransactionIndex < Len(transactions)
  /\ transactions' = [transactions EXCEPT ![currentTransactionIndex + 1] = newTransaction]
  /\ UNCHANGED <<step, entity, mode, currentTransactionIndex, totalTransactions,
                 sections, results, loading, error, sectionsReq, pending,
                 calcSucceeded>>

\* A progress-step button as it would be with setCurrentTransactionIndex(idx + 1).
ProgressStepClick_OneMore(idx) ==
  /\ step = "3"
  /\ mode = "multiple"
  /\ idx \in 0..(totalTransactions - 1)
  /\ currentTransactionIndex' = idx + 1
  /\ UNCHANGED <<step, entity, mode, transactions, totalTransactions, sections,
                 results, loading, error, sectionsReq, pending, calcSucceeded>>

\* A progress-step button: setCurrentTransactionIndex(idx)
ProgressStepClick(idx) ==
  /\ step = "3"
  /\ mode = "multiple"
  /\ idx \in 0..(totalTransactions - 1)
  /\ currentTransactionIndex' = idx
  /\ UNCHANGED <<step, entity, mode, transactions, totalTransactions, sections,
                 results, loading, error, sectionsReq, pending, calcSucceeded>>

\* A summary item: setCurrentTransactionIndex(idx)
SummaryItemClick(idx) ==
  /\ step = "3"
  /\ mode = "multiple"
  /\ idx \in 0..(Len(transactions) - 1)
  /\ currentTransactionIndex' = idx
  /\ UNCHANGED <<step, entity, mode, transactions, totalTransactions, sections,
                 results, loading, error, sectionsReq, pending, calcSucceeded>>

\* The check mark of progress step idx: idx < currentTransactionIndex ? '✓'
ProgressStepCompleted(idx) == idx < currentTransactionIndex

\* The check mark of summary item idx: txn.section_code && txn.amount > 0 ? '✓'
SummaryItemCompleted(idx) ==
  transactions[idx + 1].section_code # "" /\ transactions[idx + 1].amount > 0

\* Single-mode Back button.
handleBackToMode ==
  /\ step = "3"
  /\ mode = "single"
  /\ step' = "2"
  /\ UNCHANGED <<entity, mode, transactions, currentTransactionIndex,
                 totalTransactions, sections, results, loading, error,
                 sectionsReq, pending, calcSucceeded>>

\* Multiple-mode Back button at the first transaction: setStep(2.5)
StepThreeBackToCount ==
  /\ step = "3"
  /\ mode = "multiple"
  /\ currentTransactionIndex = 0
  /\ step' = "2.5"
  /\ UNCHANGED <<entity, mode, transactions, currentTransactionIndex,
                 totalTransactions, sections, results, loading, error,
                 sectionsReq, pending, calcSucceeded>>

\* The index handlePrevTransaction sets.
handlePrevTransactionIndex ==
  IF currentTransactionIndex > 0 THEN currentTransactionIndex - 1
  ELSE currentTransactionIndex

\* Multiple-mode Previous button (shown when currentTransactionIndex # 0).
handlePrevTransaction ==
  /\ step = "3"
  /\ mode = "multiple"
  /\ currentTransactionIndex # 0
  /\ currentTransactionIndex' = handlePrevTransactionIndex
  /\ UNCHANGED <<step, entity, mode, transactions, totalTransactions, sections,
                 results, loading, error, sectionsReq, pending, calcSucceeded>>

\* The index handleNextTransaction sets.
handleNextTransaction ==
  IF currentTransactionIndex < totalTransactions - 1
  THEN currentTransactionIndex + 1
  ELSE currentTransactionIndex

\* Whether the Next Transaction button is rendered (else the Calculate All
\* button is).
NextButtonShown == currentTransactionIndex < totalTransactions - 1

\* The Next Transaction button's onClick: setError(null), then
\* validateCurrentTransaction (which reads transactions[currentTransactionIndex],
\* so that element has to exist) and handleNextTransaction.
NextTransactionClick ==
  /\ step = "3"
  /\ mode = "multiple"
  /\ NextButtonShown
  /\ currentTransactionIndex < Len(transactions)
  /\ IF validateCurrentTransaction
     THEN /\ error' = Null
          /\ currentTransactionIndex' = handleNextTransaction
     ELSE /\ error' = validateCurrentTransactionError
          /\ UNCHANGED currentTransactionIndex
  /\ UNCHANGED <<step, entity, mode, transactions, totalTransactions, sections,
                 results, loading, sectionsReq, pending, calcSucceeded>>

\* The Calculate button as it would be without disabled={loading}.
CalculateEnabled_IgnoresLoading ==
  /\ step = "3"
  /\ mode = "single" \/ currentTransactionIndex >= totalTransactions - 1

\* Whether a Calculate button is rendered and enabled (disabled={loading}).
CalculateEnabled ==
  /\ step = "3"
  /\ mode = "single" \/ ~NextButtonShown
  /\ ~loading

\* handleCalculate up to its await: setError(null), validateAllTransactions,
\* setLoading(true) and the request.
handleCalculate ==
  /\ CalculateEnabled
  /\ Cardinality(pending) < MaxPending
  /\ IF validateAllTransactions
     THEN /\ error' = Null
          /\ loading' = TRUE
          /\ pending' = pending \cup {CalculateRequest(entity, transactions)}
     ELSE /\ error' = validateAllTransactionsError
          /\ UNCHANGED <<loading, pending>>
  /\ UNCHANGED <<step, entity, mode, transactions, currentTransactionIndex,
                 totalTransactions, sections, results, sectionsReq, calcSucceeded>>

\* handleCalculate after the await: calculateTDS resolved.
calculateTDSResolve(req) ==
  /\ req \in pending
  /\ req.kind = "calculate"
  /\ pending' = pending \ {req}
  /\ results' = ResponseResults(req)
  /\ step' = "4"
  /\ loading' = FALSE
  /\ calcSucceeded' = TRUE
  /\ UNCHANGED <<entity, mode, transactions, currentTransactionIndex,
                 totalTransactions, sections, error, sectionsReq>>

\* The catch branch as it would be if it went on to show the response.
calculateTDSReject_AsSuccess(req) ==
  /\ req \in pending
  /\ req.kind = "calculate"
  /\ pending' = pending \ {req}
  /\ error' = Message(0, "Failed to calculate TDS. Please check your inputs and try again.")
  /\ results' = ResponseResults(req)
  /\ step' = "4"
  /\ loading' = FALSE
  /\ UNCHANGED <<entity, mode, transactions, currentTransactionIndex,
                 totalTransactions, sections, sectionsReq, calcSucceeded>>

\* handleCalculate after the await: calculateTDS rejected.
calculateTDSReject(req) ==
  /\ req \in pending
  /\ req.kind = "calculate"
  /\ pending' = pending \ {req}
  /\ error' = Message(0, "Failed to calculate TDS. Please check your inputs and try again.")
  /\ loading' = FALSE
  /\ UNCHANGED <<step, entity, mode, transactions, currentTransactionIndex,
                 totalTransactions, sections, results, sectionsReq, calcSucceeded>>

\* ------------------------------------------------------------------ step 4
\* Whether ReportDisplay is rendered: step === 4 && results
ReportDisplayShown == step = "4" /\ results # Null

\* Whether ReportDisplay offers its download button, given its loading prop.
DownloadEnabled == ~loading

handleDownloadExcel ==
  /\ ReportDisplayShown
  /\ DownloadEnabled
  /\ Cardinality(pending) < MaxPending
  /\ loading' = TRUE
  /\ pending' = pending \cup {ExportRequest(entity, results)}
  /\ UNCHANGED <<step, entity, mode, transactions, currentTransactionIndex,
                 totalTransactions, sections, results, error, sectionsReq,
                 calcSucceeded>>

\* handleDownloadExcel after the await: downloadExcel returned true.
downloadExcelResolve(req) ==
  /\ req \in pending
  /\ req.kind = "export"
  /\ pending' = pending \ {req}
  /\ loading' = FALSE
  /\ UNCHANGED <<step, entity, mode, transactions, currentTransactionIndex,
                 totalTransactions, sections, results, error, sectionsReq,
                 calcSucceeded>>

\* downloadExcelReject as it would be without the finally block.
downloadExcelReject_KeepsLoading(req) ==
  /\ req \in pending
  /\ req.kind = "export"
  /\ pending' = pending \ {req}
  /\ error' = Message(0, "Failed to download Excel. Please try again.")
  /\ UNCHANGED <<step, entity, mode, transactions, currentTransactionIndex,
                 totalTransactions, sections, results, loading, sectionsReq,
                 calcSucceeded>>

\* handleDownloadExcel after the await: downloadExcel threw (fetch failed or
\* !response.ok).
downloadExcelReject(req) ==
  /\ req \in pending
  /\ req.kind = "export"
  /\ pending' = pending \ {req}
  /\ error' = Message(0, "Failed to download Excel. Please try again.")
  /\ loading' = FALSE
  /\ UNCHANGED <<step, entity, mode, transactions, currentTransactionIndex,
                 totalTransactions, sections, results, sectionsReq, calcSucceeded>>

\* handleBack as it would be if it also closed the banner.
handleBack_ClearsError ==
  /\ step = "4" /\ results # Null
  /\ results' = Null
  /\ transactions' = <<getDefaultTransaction>>
  /\ currentTransactionIndex' = 0
  /\ totalTransactions' = 1
  /\ step' = "1"
  /\ entity' = Null
  /\ mode' = "single"
  /\ error' = Null
  /\ calcSucceeded' = FALSE
  /\ UNCHANGED <<sections, loading, sectionsReq, pending>>

\* handleBack as it would be without setStep(1).
handleBack_KeepsStep ==
  /\ step = "4" /\ results # Null
  /\ results' = Null
  /\ transactions' = <<getDefaultTransaction>>
  /\ currentTransactionIndex' = 0
  /\ totalTransactions' = 1
  /\ entity' = Null
  /\ mode' = "single"
  /\ calcSucceeded' = FALSE
  /\ UNCHANGED <<step, sections, loading, error, sectionsReq, pending>>

\* handleBack as it would be without setMode('single').
handleBack_KeepsMode ==
  /\ step = "4" /\ results # Null
  /\ results' = Null
  /\ transactions' = <<getDefaultTransaction>>
  /\ currentTransactionIndex' = 0
  /\ totalTransactions' = 1
  /\ step' = "1"
  /\ entity' = Null
  /\ calcSucceeded' = FALSE
  /\ UNCHANGED <<mode, sections, loading, error, sectionsReq, pending>>

\* ReportDisplay onBack={handleBack}
handleBack ==
  /\ ReportDisplayShown
  /\ results' = Null
  /\ transactions' = <<getDefaultTransaction>>
  /\ currentTransactionIndex' = 0
  /\ totalTransactions' = 1
  /\ step' = "1"
  /\ entity' = Null
  /\ mode' = "single"
  /\ calcSucceeded' = FALSE
  /\ UNCHANGED <<sections, loading, error, sectionsReq, pending>>

\* ------------------------------------------------------------ specification
\* The handlers that take no input from outside the wizard's own state, and
\* the settling of the calculate and export requests.
Wizard ==
  \/ DismissError
  \/ \E entityData \in EntityInputs : handleEntitySubmit(entityData)
  \/ \E m \in {"single", "multiple"} : onModeChange(m)
  \/ StepTwoBack
  \/ handleModeSelect
  \/ CountDecrement
  \/ StepCountBack
  \/ handleSetTransactionCount
  \/ \E idx \in 0..(MaxTransactions - 1) : ProgressStepClick(idx)
  \/ \E idx \in 0..(MaxTransactions - 1) : SummaryItemClick(idx)
  \/ handleBackToMode
  \/ StepThreeBackToCount
  \/ handlePrevTransaction
  \/ NextTransactionClick
  \/ handleCalculate
  \/ \E req \in pending : calculateTDSResolve(req)
  \/ \E req \in pending : calculateTDSReject(req)
  \/ handleDownloadExcel
  \/ \E req \in pending : downloadExcelResolve(req)
  \/ \E req \in pending : downloadExcelReject(req)
  \/ handleBack

\* The whole application, with a user who asks for any number of transactions
\* and fills in the form in single mode only.
Next ==
  \/ Wizard
  \/ fetchSectionsResolve
  \/ fetchSectionsReject
  \/ CountIncrement
  \/ \E s \in CountInputs : CountInputChange(s)
  \/ \E newTransaction \in TxnInputs :
       handleTransactionChange(newTransaction) /\ mode = "single"

Spec == Init /\ [][Next]_vars

\* Transaction entry in both modes, with a user who asks for at most MaxCount
\* transactions and fills in lists of at most MaxEditLen, while the sections
\* request is outstanding.
NextEntry ==
  \/ Wizard
  \/ CountIncrement /\ totalTransactions' <= MaxCount
  \/ \E s \in CountInputs : CountInputChange(s) /\ totalTransactions' <= MaxCount
  \/ \E newTransaction \in TxnInputs :
       handleTransactionChange(newTransaction) /\ Len(transactions) <= MaxEditLen

SpecEntry == Init /\ [][NextEntry]_vars

\* A request in flight settles: its promise resolves or rejects and the
\* continuation of the handler that awaited it runs.
Settle ==
  \E req \in pending :
    \/ calculateTDSResolve(req)
    \/ calculateTDSReject(req)
    \/ downloadExcelResolve(req)
    \/ downloadExcelReject(req)

\* SpecEntry with every request in flight settling eventually.
SpecEntryFair == SpecEntry /\ WF_vars(Settle)

\* Characters of the entity names drawn under SpecFilename: letters, a digit,
\* whitespace and punctuation.
NameAlphabet == {"a", "Z", "7", " ", "\t", "&", "_"}

Names == UNION {[1..n -> NameAlphabet] : n \in 0..MaxNameLen}

\* The results step after a single-mode calculation for an entity whose name
\* is any of Names.
InitFilename ==
  /\ step = "4"
  /\ \E name \in Names : entity = [entity_name |-> name, pan_number |-> "AAAAA0000A"]
  /\ mode = "single"
  /\ transactions =
       <<[getDefaultTransaction EXCEPT !.section_code = "194C", !.amount = 5000]>>
  /\ currentTransactionIndex = 0
  /\ totalTransactions = 1
  /\ sections = <<>>
  /\ results = [entity |-> entity, transactions |-> transactions]
  /\ loading = FALSE
  /\ error = Null
  /\ sectionsReq = "pending"
  /\ pending = {}
  /\ calcSucceeded = TRUE

\* The export from the results step.
NextFilename ==
  \/ handleDownloadExcel
  \/ \E req \in pending : downloadExcelResolve(req)
  \/ \E req \in pending : downloadExcelReject(req)
  \/ DismissError

SpecFilename == InitFilename /\ [][NextFilename]_vars

\* =================================================================== claims
\* A transaction is valid: section code non-empty, amount > 0, both dates
\* non-empty.
Valid(txn) ==
  /\ txn.section_code # ""
  /\ txn.amount > 0
  /\ txn.deduction_date # ""
  /\ txn.payment_date # ""

AllValid(txns) == \A i \in 1..Len(txns) : Valid(txns[i])

\* The calculate requests a step puts in flight.
NewCalculateRequests == {r \in pending' \ pending : r.kind = "calculate"}

\* C1: a calculate request is put in flight only by a step taken with every
\* transaction of the list valid, and it carries that list; when
\* handleCalculate runs with an invalid transaction in the list, no request is
\* sent, step and results are unchanged, loading is and stays false, and error
\* becomes a message.
C1_CalculateOnlyWhenAllValid ==
  [][ /\ \A r \in NewCalculateRequests :
           AllValid(transactions) /\ r.transactions = transactions
      /\ (handleCalculate /\ ~AllValid(transactions)) =>
           /\ pending' = pending
           /\ step' = step
           /\ results' = results
           /\ ~loading /\ ~loading'
           /\ error' # Null ]_vars

\* C1 witness: a calculate request for two transactions is in flight.
C1_Witness ==
  \E r \in pending : r.kind = "calculate" /\ Len(r.transactions) = 2 /\ loading

\* C2: results are non-null only if a calculate request has succeeded since
\* the session started or since the last handleBack; a calculate request that
\* fails leaves results and step unchanged.
C2_ResultsOnlyAfterSuccess ==
  /\ [](results # Null => calcSucceeded)
  /\ [][ \A req \in pending :
           calculateTDSReject(req) => results' = results /\ step' = step ]_vars

\* C2 witness: the results of a successful request are on the results step.
C2_Witness == step = "4" /\ results # Null /\ calcSucceeded

\* C3 as stated: the list is always as long as totalTransactions.
C3_LengthAlwaysEqualsCount == Len(transactions) = totalTransactions

\* C3 as amended: on the transaction-entry step the list is as long as
\* totalTransactions.
C3_LengthEqualsCountOnEntry ==
  step = "3" => Len(transactions) = totalTransactions

\* C3 witness: the entry step with the largest count.
C3_Witness ==
  step = "3" /\ mode = "multiple" /\ Len(transactions) = MaxTransactions

\* C4: totalTransactions and the length of the list are both in 1..20.
C4_CountInRange ==
  /\ totalTransactions \in 1..20
  /\ Len(transactions) \in 1..20

\* C4 witness: the count step at the upper limit, where + is disabled, with a
\* list of 20 left from an earlier visit of the entry step.
C4_Witness ==
  step = "2.5" /\ totalTransactions = 20 /\ Len(transactions) = 20

\* C5: in multiple mode every transaction the entry step marks as completed
\* (progress step or summary item) is valid.
C5_CompletedImpliesValid ==
  (step = "3" /\ mode = "multiple") =>
    \A idx \in 0..(Len(transactions) - 1) :
      (ProgressStepCompleted(idx) \/ SummaryItemCompleted(idx)) =>
        Valid(transactions[idx + 1])

\* C6: the Next Transaction click is taken only with
\* currentTransactionIndex < totalTransactions - 1; when the active
\* transaction is valid it adds exactly 1 to the index and leaves error null,
\* whatever the other transactions are; when it is invalid it leaves the index
\* and sets error.
C6_NextValidatesActiveOnly ==
  [][ NextTransactionClick =>
        /\ currentTransactionIndex < totalTransactions - 1
        /\ IF Valid(transactions[currentTransactionIndex + 1])
           THEN /\ currentTransactionIndex' = currentTransactionIndex + 1
                /\ error' = Null
           ELSE /\ currentTransactionIndex' = currentTransactionIndex
                /\ error' # Null ]_vars

\* C6 witness: Next has moved on from a valid first transaction while the
\* second one is still invalid.
C6_Witness ==
  /\ step = "3" /\ mode = "multiple" /\ Len(transactions) = 2
  /\ currentTransactionIndex = 1
  /\ Valid(transactions[1]) /\ ~Valid(transactions[2])
  /\ error = Null

\* C7 as stated: once an entity is stored, only handleBack changes it.
C7_EntityChangesOnlyOnBack ==
  [][ (entity # Null /\ entity' # entity) => handleBack ]_vars

\* C7 as amended: once an entity is stored, it changes only when the entity
\* form is submitted again on step 1 or when handleBack discards the session.
C7_EntityChangesOnlyOnSubmitOrBack ==
  [][ (entity # Null /\ entity' # entity) =>
        \/ handleBack
        \/ step = "1" /\ \E entityData \in EntityInputs : handleEntitySubmit(entityData) ]_vars

\* C7 witness: the entity in state is no longer the one a calculate request
\* still in flight was sent with.
C7_Witness ==
  /\ entity # Null
  /\ \E r \in pending : r.kind = "calculate" /\ r.entity # entity

\* C8: at most one calculate or export request is in flight.
C8_RequestsNeverOverlap == Cardinality(pending) <= 1

\* C8 witness: the entry step holds a list ready to be calculated while an
\* export request is still in flight.
C8_Witness ==
  /\ step = "3" /\ AllValid(transactions)
  /\ \E r \in pending : r.kind = "export"

\* C9: a failed sections, calculate or export request and a failed validation
\* each leave a message in error; a failed calculate or export request leaves
\* step, results, entity and transactions unchanged; error goes back to null
\* only by the banner's close button, a Next click or handleCalculate.
C9_FailuresSurfaceInBanner ==
  [][ /\ fetchSectionsReject => error' # Null
      /\ \A req \in pending :
           (calculateTDSReject(req) \/ downloadExcelReject(req)) =>
             /\ error' # Null
             /\ step' = step /\ results' = results
             /\ entity' = entity /\ transactions' = transactions
      /\ (NextTransactionClick /\ ~Valid(transactions[currentTransactionIndex + 1])) =>
           error' # Null
      /\ (handleCalculate /\ ~AllValid(transactions)) => error' # Null
      /\ (error # Null /\ error' = Null) =>
           DismissError \/ NextTransactionClick \/ handleCalculate ]_vars

\* C9 witness: the export has failed on the results step.
C9_Witness ==
  /\ step = "4" /\ results # Null
  /\ error = Message(0, "Failed to download Excel. Please try again.")

\* C10: handleBack leaves step, entity, mode, transactions,
\* currentTransactionIndex, totalTransactions and results as they are
\* initially, and sections, loading and error as they were.
C10_BackDiscardsSession ==
  [][ handleBack =>
        /\ step' = "1"
        /\ entity' = Null
        /\ mode' = "single"
        /\ transactions' = <<getDefaultTransaction>>
        /\ currentTransactionIndex' = 0
        /\ totalTransactions' = 1
        /\ results' = Null
        /\ sections' = sections /\ loading' = loading /\ error' = error ]_vars

\* C10 witness: the session has been discarded while an export was in flight,
\* the banner was showing and the sections were loaded.
C10_Witness ==
  /\ step = "1" /\ entity = Null /\ mode = "single" /\ results = Null
  /\ loading /\ error # Null /\ sections # <<>>
  /\ \E r \in pending : r.kind = "export" /\ Len(r.results.transactions) = 1

\* C11: handleTransactionChange puts the new transaction at
\* currentTransactionIndex and leaves every other element of the list, its
\* length, currentTransactionIndex, totalTransactions, step, mode, entity and
\* results unchanged.
C11_EditChangesActiveOnly ==
  [][ \A newTransaction \in TxnInputs :
        handleTransactionChange(newTransaction) =>
          /\ Len(transactions') = Len(transactions)
          /\ transactions'[currentTransactionIndex + 1] = newTransaction
          /\ \A i \in 1..Len(transactions) :
               i # currentTransactionIndex + 1 => transactions'[i] = transactions[i]
          /\ currentTransactionIndex' = currentTransactionIndex
          /\ totalTransactions' = totalTransactions
          /\ step' = step /\ mode' = mode
          /\ entity' = entity /\ results' = results ]_vars

\* C11 witness: the second of two transactions has been filled in while the
\* first is still the default one.
C11_Witness ==
  /\ step = "3" /\ Len(transactions) = 2 /\ currentTransactionIndex = 1
  /\ transactions[1] = getDefaultTransaction
  /\ transactions[2] \in TxnInputs

\* The sanitized name as one pass over the entity name: an alphanumeric
\* character is kept, a whitespace character gives an underscore unless the
\* last character seen before it, other than deleted ones, was whitespace too,
\* anything else is deleted.
RECURSIVE ExpectedName(_, _)
ExpectedName(s, inRun) ==
  IF s = <<>> THEN <<>>
  ELSE IF Head(s) \in {" ", "\t", "\n"}
       THEN (IF inRun THEN <<>> ELSE <<"_">>) \o ExpectedName(Tail(s), TRUE)
  ELSE IF Head(s) \in {"a", "Z", "7"}
       THEN <<Head(s)>> \o ExpectedName(Tail(s), FALSE)
  ELSE ExpectedName(Tail(s), inRun)

\* The filename f is the one the claim gives for the entity name.
FilenameAsClaimed(name, f) ==
  LET n == Len(f) - 21
  IN /\ n >= 0
     /\ \A i \in 1..n : f[i] \in {"a", "Z", "7", "_"}
     /\ SubSeq(f, 1, n) = ExpectedName(name, FALSE)
     /\ SubSeq(f, n + 1, n + 8) = <<"_", "R", "e", "p", "o", "r", "t", "_">>
     /\ SubSeq(f, n + 9, n + 16) = <<"2", "0", "2", "6", "0", "1", "1", "5">>
     /\ SubSeq(f, n + 17, n + 21) = <<".", "x", "l", "s", "x">>

\* C12: the name an export is saved under is the entity name with every
\* character that is neither alphanumeric nor whitespace deleted and then
\* every maximal run of whitespace replaced by one underscore (so it holds
\* only letters, digits and underscores), followed by "_Report_", the
\* 8-digit date and ".xlsx".
C12_FilenameFromEntityName ==
  \A r \in pending :
    r.kind = "export" => FilenameAsClaimed(r.entity.entity_name, r.filename)

\* C12 witness: an export is in flight for the entity " &<tab>", whose two
\* whitespace characters become one run once the "&" is deleted.
C12_Witness ==
  \E r \in pending :
    /\ r.kind = "export"
    /\ r.entity.entity_name = <<" ", "&", "\t">>
    /\ Len(r.filename) = 22 /\ r.filename[1] = "_"

\* C13: every step that takes the wizard to the results step starts on the
\* transaction-entry step.
C13_ResultsStepOnlyFromEntry ==
  [][ (step # "4" /\ step' = "4") => step = "3" ]_vars

\* C14: the results shown on the results step are the response to a request
\* made with the entity and the transactions now in state.
C14_ResultsMatchState ==
  (step = "4" /\ results # Null) =>
    /\ results.entity = entity
    /\ results.transactions = transactions

\* C15: currentTransactionIndex is an index of the transactions list;
\* handleNextTransaction at the last index and handlePrevTransaction at index
\* 0 give the index they were called with.
C15_IndexInRange ==
  /\ 0 <= currentTransactionIndex
  /\ currentTransactionIndex < Len(transactions)
  /\ currentTransactionIndex = totalTransactions - 1 =>
       handleNextTransaction = currentTransactionIndex
  /\ currentTransactionIndex = 0 => handlePrevTransactionIndex = 0

\* C15 witness: the entry step on the last of three transactions.
C15_Witness ==
  /\ step = "3" /\ mode = "multiple" /\ Len(transactions) = 3
  /\ currentTransactionIndex = 2 /\ totalTransactions = 3

\* C16: on steps 2, 2.5, 3 and 4 the entity is non-null, and so is the entity
\* of every calculate and export request.
C16_EntityPresentAfterStepOne ==
  /\ step \in {"2", "2.5", "3", "4"} => entity # Null
  /\ \A r \in pending : r.entity # Null

\* C16 witness: the results step shows a response that arrived after the
\* entity form had been submitted again.
C16_Witness ==
  /\ step = "4" /\ entity # Null /\ results # Null
  /\ results.entity # entity

\* C17: on the transaction-entry step the list is as long as
\* totalTransactions, and in single mode it has one element and
\* currentTransactionIndex is 0.
C17_EntryStepShape ==
  step = "3" =>
    /\ Len(transactions) = totalTransactions
    /\ mode = "single" => Len(transactions) = 1 /\ currentTransactionIndex = 0

\* C17 witness: single mode on the entry step, the one transaction filled in,
\* with the count of an earlier multiple-mode visit gone.
C17_Witness ==
  /\ step = "3" /\ mode = "single" /\ totalTransactions = 1
  /\ transactions[1] \in TxnInputs
  /\ \E r \in pending : r.kind = "export"

\* C19: a step that enters the transaction-entry step leaves every
\* transaction of the list equal to the default one and
\* currentTransactionIndex at 0.
C19_EntryStartsFromDefaults ==
  [][ (step # "3" /\ step' = "3") =>
        /\ \A i \in 1..Len(transactions') : transactions'[i] = getDefaultTransaction
        /\ currentTransactionIndex' = 0 ]_vars

\* C19 witness: the entry step holds two default transactions while the
\* request made with the two entered before going Back is still in flight.
C19_Witness ==
  /\ step = "3" /\ Len(transactions) = 2
  /\ \A i \in 1..2 : transactions[i] = getDefaultTransaction
  /\ \E r \in pending : r.kind = "calculate" /\ Len(r.transactions) = 2

\* C18: loading is true exactly while a calculate or export request is in
\* flight: handleCalculate passing validation and handleDownloadExcel set it,
\* every settling of a request clears it, and with requests settling
\* eventually loading is eventually false, which is when the Calculate button
\* (disabled while loading) is enabled again.
C18_LoadingWhilePending ==
  /\ [](loading <=> pending # {})
  /\ [][ (handleCalculate /\ validateAllTransactions) => loading' ]_vars
  /\ [][ handleDownloadExcel => loading' ]_vars
  /\ [][ Settle => ~loading' ]_vars
  /\ loading ~> ~loading

\* C18 witness: a failed export has settled; the banner shows its message and
\* loading is false again with nothing in flight.
C18_Witness ==
  /\ step = "4" /\ ~loading /\ pending = {}
  /\ error = Message(0, "Failed to download Excel. Please try again.")

====
